---- MODULE Spec2Model ----
(***************************************************************************)
(* Model of the IMAP archiver of src/src/main.ts: one run of main()        *)
(* against an IMAP store.  Every awaited store call (connect, mailboxOpen, *)
(* status, search, list, messageMove, logout) is one action; the           *)
(* synchronous code between two awaits belongs to the action of the call   *)
(* it follows.  The store answers a call or rejects it (the call throws).  *)
(* Message identifiers are IMAP sequence numbers: positions in INBOX,      *)
(* renumbered whenever a message leaves INBOX.                             *)
(***************************************************************************)
EXTENDS Integers, Sequences, FiniteSets, TLC

\* ---------------------------------------------------------------- bounds
MaxMsgs  == 3      \* messages in INBOX when the run starts
MaxBatch == 2      \* largest configured batch size
MaxFail  == 2      \* rejected store calls in one run
MaxTicks == 1      \* clock advances during one run
DayLen   == 2      \* clock units per calendar day
MaxArrive == 1     \* messages delivered to INBOX during one run
MaxEnvLen == 2     \* characters in the IMAP_BATCH_SIZE setting

\* ------------------------------------------------------------- constants
WeekDays == 7      \* moment().subtract(1, 'weeks')
DefaultBatch == 500  \* the fallback of main.ts:24


\* container names a store may list
Names == {"INBOX", "Archive", "ARCHIVE", "archive", "Sent"}

VARIABLES
    pc,                   \* position of main(): the next awaited call
    now,                  \* wall clock read by moment()
    ticks,                \* clock advances so far
    inbox,                \* INBOX on the store: sequence of messages, each
                          \* with its received time t and whether it was
                          \* delivered after the status snapshot (late)
    archive,              \* messages that arrived in Archive
    mailboxes,            \* paths returned by connection.list()
    BATCH_SIZE,           \* main.ts:24
    oneWeekAgo,           \* main.ts:137
    startSeq,             \* main.ts:150
    emails,               \* main.ts:152, the current page
    index,                \* main.ts:91, the mover's cursor
    totalEmailsMoved,     \* main.ts:131
    estimatedTotalEmails, \* main.ts:132
    caught,               \* the catch block of main.ts:164 ran
    exitCode,             \* process exit status, -1 while running
    fails,                \* rejected store calls so far
    reqs                  \* store requests issued so far, in order

vars == <<pc, now, ticks, inbox, archive, mailboxes, BATCH_SIZE, oneWeekAgo,
          startSeq, emails, index, totalEmailsMoved, estimatedTotalEmails,
          caught, exitCode, fails, reqs>>

\* ---------------------------------------------------------------- helpers
Min(a, b) == IF a < b THEN a ELSE b

\* String.prototype.toLowerCase on the container names
LowerCase(n) ==
    CASE n = "INBOX"   -> "inbox"
      [] n = "Archive" -> "archive"
      [] n = "ARCHIVE" -> "archive"
      [] n = "archive" -> "archive"
      [] n = "Sent"    -> "sent"
      [] OTHER         -> n

\* moment().subtract(1, 'weeks').startOf('day') at clock reading t
Cutoff(t) == ((t - WeekDays * DayLen) \div DayLen) * DayLen

\* the clock when the run starts: the last unit of a day
NowInit == (WeekDays + 1) * DayLen + DayLen - 1

\* received times of the messages present at the start: one older than
\* every cutoff of the run, one that falls behind the cutoff only when the
\* day changes during the run, one recent
RecvTimes == {DayLen - 1, Cutoff(NowInit), NowInit - 1}

\* slice without its end index: everything from the cursor on
Slice_NoEnd(s, from, to) == SubSeq(s, from + 1, Len(s))

\* slice with the end index taken as inclusive-exclusive one too early
Slice_Short(s, from, to) == SubSeq(s, from + 1, Min(to, Len(s)) - 1)

\* Array.prototype.slice(from, to) on a 0-based array held as a sequence
Slice(s, from, to) == SubSeq(s, from + 1, Min(to, Len(s)))

\* the store's answer to SEARCH BEFORE before lo:hi on mailbox box:
\* the matching sequence numbers in ascending order
RECURSIVE SearchFrom(_, _, _, _)
SearchFrom(box, before, i, hi) ==
    IF i > hi \/ i > Len(box) THEN <<>>
    ELSE (IF box[i].t < before THEN <<i>> ELSE <<>>)
         \o SearchFrom(box, before, i + 1, hi)

StoreSearch(box, before, lo, hi) == SearchFrom(box, before, lo, hi)

SeqRange(s) == {s[i] : i \in 1..Len(s)}

\* the messages of box at the sequence numbers in S / at the others,
\* in mailbox order
RECURSIVE Pick(_, _, _, _)
Pick(box, S, i, in) ==
    IF i > Len(box) THEN <<>>
    ELSE (IF (i \in S) = in THEN <<box[i]>> ELSE <<>>) \o Pick(box, S, i + 1, in)

\* the messages (by their identity in the store) that the sequence numbers
\* ids denote in mailbox box, 0 for a number beyond the mailbox
Denote(box, ids) ==
    [p \in 1..Len(ids) |-> IF ids[p] \in 1..Len(box) THEN box[ids[p]].id ELSE 0]

Blank == [op |-> "", lo |-> 0, hi |-> 0, before |-> 0, ids |-> <<>>,
          dest |-> "", ok |-> TRUE, res |-> <<>>, msgs |-> <<>>]

CanFail == fails < MaxFail

\* a store call is answered (ok) or rejected
Outcome(ok) == fails' = IF ok THEN fails ELSE fails + 1

Log(r) == reqs' = Append(reqs, r)

\* a rejected call swallowed where it happens, the run going on to paginate
Throw_Resume == /\ caught' = TRUE
                /\ pc' = "search"

\* a rejected call that leaves main without running the finally block
Throw_NoFinally == /\ caught' = TRUE
                   /\ pc' = "done"

\* a rejected call inside the try block: catch at main.ts:164, then finally
Throw == /\ caught' = TRUE
         /\ pc' = "logout"

\* ------------------------------------------------------------------ state
InitBoxes(n) == [1..n -> RecvTimes]

Init ==
    /\ pc = "connect"
    /\ now = NowInit
    /\ ticks = 0
    /\ \E n \in 0..MaxMsgs : \E ts \in InitBoxes(n) :
          inbox = [i \in 1..n |-> [id |-> i, t |-> ts[i], late |-> FALSE]]
    /\ archive = <<>>
    /\ mailboxes \in {{"INBOX"} \cup S : S \in SUBSET (Names \ {"INBOX"})}
    /\ BATCH_SIZE \in 1..MaxBatch
    /\ oneWeekAgo = 0
    /\ startSeq = 0
    /\ emails = <<>>
    /\ index = 0
    /\ totalEmailsMoved = 0
    /\ estimatedTotalEmails = 0
    /\ caught = FALSE
    /\ exitCode = -1
    /\ fails = 0
    /\ reqs = <<>>

\* ---------------------------------------------------------------- actions
\* main.ts:137-140
Connect ==
    /\ pc = "connect"
    /\ oneWeekAgo' = Cutoff(now)
    /\ \E ok \in BOOLEAN :
        /\ ok \/ CanFail
        /\ Outcome(ok)
        /\ Log([Blank EXCEPT !.op = "connect", !.ok = ok])
        /\ IF ok THEN pc' = "open" /\ UNCHANGED caught ELSE Throw
    /\ UNCHANGED <<now, ticks, inbox, archive, mailboxes, BATCH_SIZE, startSeq,
                   emails, index, totalEmailsMoved, estimatedTotalEmails, exitCode>>

\* main.ts:141-142
MailboxOpen ==
    /\ pc = "open"
    /\ \E ok \in BOOLEAN :
        /\ ok \/ CanFail
        /\ Outcome(ok)
        /\ Log([Blank EXCEPT !.op = "open", !.dest = "INBOX", !.ok = ok])
        /\ IF ok THEN pc' = "status" /\ UNCHANGED caught ELSE Throw
    /\ UNCHANGED <<now, ticks, inbox, archive, mailboxes, BATCH_SIZE, oneWeekAgo,
                   startSeq, emails, index, totalEmailsMoved,
                   estimatedTotalEmails, exitCode>>

\* main.ts:145-150
Status ==
    /\ pc = "status"
    /\ \E ok \in BOOLEAN :
        /\ ok \/ CanFail
        /\ Outcome(ok)
        /\ Log([Blank EXCEPT !.op = "status", !.dest = "INBOX", !.ok = ok])
        /\ IF ok
           THEN /\ estimatedTotalEmails' = Len(inbox)
                /\ startSeq' = 1
                /\ pc' = "search"
                /\ UNCHANGED caught
           ELSE /\ Throw
                /\ UNCHANGED <<estimatedTotalEmails, startSeq>>
    /\ UNCHANGED <<now, ticks, inbox, archive, mailboxes, BATCH_SIZE, oneWeekAgo,
                   emails, index, totalEmailsMoved, exitCode>>

\* the window taken one sequence number too long
WindowEnd_Long(start, b) == start + b

\* the last sequence number of the window that starts at start, main.ts:76
WindowEnd(start, b) == start + b - 1

\* the page counted as a full batch whatever its length
AddMoved_Batch(total, page, b) == total + b

\* the count after a page was handed to the mover, main.ts:155
AddMoved(total, page, b) == total + Len(page)

\* leaving the loop on any page shorter than the window
PageEnds_Short(page, b) == Len(page) < b

\* the test that leaves the loop of main.ts:151-160 (main.ts:153, 156-157)
PageEnds(page, b) == Len(page) = 0

\* fetchEmails, main.ts:74-82, and the test of main.ts:152-158
Search ==
    /\ pc = "search"
    /\ LET before == Cutoff(now)
           lo     == startSeq
           hi     == WindowEnd(startSeq, BATCH_SIZE)
           res    == StoreSearch(inbox, before, lo, hi)
       IN \E ok \in BOOLEAN :
            /\ ok \/ CanFail
            /\ Outcome(ok)
            /\ Log([Blank EXCEPT !.op = "search", !.lo = lo, !.hi = hi,
                                 !.before = before, !.ok = ok,
                                 !.res = IF ok THEN res ELSE <<>>,
                                 !.msgs = IF ok THEN Denote(inbox, res) ELSE <<>>])
            /\ IF ok
               THEN /\ emails' = res
                    /\ pc' = IF PageEnds(res, BATCH_SIZE) THEN "logout" ELSE "list"
                    /\ UNCHANGED caught
               ELSE /\ Throw
                    /\ UNCHANGED emails
    /\ UNCHANGED <<now, ticks, inbox, archive, mailboxes, BATCH_SIZE, oneWeekAgo,
                   startSeq, index, totalEmailsMoved, estimatedTotalEmails,
                   exitCode>>

\* the existence test reduced to "the listing is not empty"
ArchiveExists_Some(boxes) == boxes # {}

\* main.ts:93
ArchiveExists(boxes) == \E mb \in boxes : LowerCase(mb) = "archive"

\* moveEmailsToArchive up to its loop, main.ts:91-102; when it returns at
\* main.ts:97 the caller goes on with main.ts:155 and 159
List ==
    /\ pc = "list"
    /\ \E ok \in BOOLEAN :
        /\ ok \/ CanFail
        /\ Outcome(ok)
        /\ Log([Blank EXCEPT !.op = "list", !.ok = ok])
        /\ IF ok
           THEN /\ index' = 0
                /\ IF ArchiveExists(mailboxes) /\ 0 < Len(emails)
                   THEN /\ pc' = "move"
                        /\ UNCHANGED <<totalEmailsMoved, startSeq>>
                   ELSE /\ totalEmailsMoved' = AddMoved(totalEmailsMoved, emails, BATCH_SIZE)
                        /\ startSeq' = startSeq + BATCH_SIZE
                        /\ pc' = "search"
                /\ UNCHANGED caught
           ELSE /\ Throw
                /\ UNCHANGED <<index, totalEmailsMoved, startSeq>>
    /\ UNCHANGED <<now, ticks, inbox, archive, mailboxes, BATCH_SIZE, oneWeekAgo,
                   emails, estimatedTotalEmails, exitCode>>

\* the store's MOVE of the sequence numbers ids: what stays in the mailbox
\* (renumbered) and what is appended to the destination
StoreMoveKeep(box, ids) == Pick(box, SeqRange(ids), 1, FALSE)
StoreMoveTake(box, ids) == Pick(box, SeqRange(ids), 1, TRUE)

\* the store accepts a move only into a container it has
StoreHas(boxes, dest) == dest \in boxes

\* the cursor advanced after the try/catch instead of inside the try
NextIndex_Always(i, b, ok) == i + b

\* the cursor after the try/catch of one chunk, main.ts:105-111
NextIndex(i, b, ok) == IF ok THEN i + b ELSE i

\* one pass of the loop of main.ts:102-116; when the loop ends the caller
\* goes on with main.ts:155 and 159
Move ==
    /\ pc = "move"
    /\ LET batch == Slice(emails, index, index + BATCH_SIZE)
       IN \E ok \in BOOLEAN :
            /\ ok => StoreHas(mailboxes, "Archive")
            /\ ok \/ CanFail
            /\ Outcome(ok)
            /\ Log([Blank EXCEPT !.op = "move", !.ids = batch,
                                 !.dest = "Archive", !.ok = ok,
                                 !.msgs = Denote(inbox, batch)])
            /\ IF ok
               THEN /\ inbox' = StoreMoveKeep(inbox, batch)
                    /\ archive' = archive \o StoreMoveTake(inbox, batch)
               ELSE UNCHANGED <<inbox, archive>>
            /\ index' = NextIndex(index, BATCH_SIZE, ok)
            /\ IF index' < Len(emails)
               THEN /\ pc' = "move"
                    /\ UNCHANGED <<totalEmailsMoved, startSeq>>
               ELSE /\ totalEmailsMoved' = AddMoved(totalEmailsMoved, emails, BATCH_SIZE)
                    /\ startSeq' = startSeq + BATCH_SIZE
                    /\ pc' = "search"
    /\ UNCHANGED <<now, ticks, mailboxes, BATCH_SIZE, oneWeekAgo, emails,
                   estimatedTotalEmails, caught, exitCode>>

\* the finally block, main.ts:166-169, and the handler of main.ts:172-175
Logout ==
    /\ pc = "logout"
    /\ \E ok \in BOOLEAN :
        /\ ok \/ CanFail
        /\ Outcome(ok)
        /\ Log([Blank EXCEPT !.op = "logout", !.ok = ok])
        /\ exitCode' = IF ok THEN 0 ELSE 1
    /\ pc' = "done"
    /\ UNCHANGED <<now, ticks, inbox, archive, mailboxes, BATCH_SIZE, oneWeekAgo,
                   startSeq, emails, index, totalEmailsMoved,
                   estimatedTotalEmails, caught>>

\* wall-clock time advances between two awaited calls
Tick ==
    /\ pc # "done"
    /\ ticks < MaxTicks
    /\ now' = now + 1
    /\ ticks' = ticks + 1
    /\ UNCHANGED <<pc, inbox, archive, mailboxes, BATCH_SIZE, oneWeekAgo, startSeq,
                   emails, index, totalEmailsMoved, estimatedTotalEmails,
                   caught, exitCode, fails, reqs>>

Next ==
    \/ Connect
    \/ MailboxOpen
    \/ Status
    \/ Search
    \/ List
    \/ Move
    \/ Logout
    \/ Tick

Spec == Init /\ [][Next]_vars

\* the steps of main(): each awaited store call settles (the client has
\* connection, greeting and socket timeouts, main.ts:62-64) and the event
\* loop then resumes main
Run == Connect \/ MailboxOpen \/ Status \/ Search \/ List \/ Move \/ Logout

SpecLive == Init /\ [][Next]_vars /\ WF_vars(Run)

\* the messages on the store, wherever they are
Stored == SeqRange(inbox) \cup SeqRange(archive)

\* a message is delivered to INBOX after the snapshot of main.ts:145-146 (a
\* delivery before it is a larger mailbox at the start): new mail, or a
\* message with an old received time put into INBOX by another client.  It
\* is appended behind every sequence number a pending move names, so the run
\* observes it at its next search: deliveries are taken right before a search
Arrive ==
    /\ pc = "search"
    /\ Cardinality({x \in Stored : x.late}) < MaxArrive
    /\ \E tt \in {DayLen - 1, now} :
         inbox' = Append(inbox, [id |-> Cardinality(Stored) + 1, t |-> tt,
                                 late |-> TRUE])
    /\ UNCHANGED <<pc, now, ticks, archive, mailboxes, BATCH_SIZE, oneWeekAgo,
                   startSeq, emails, index, totalEmailsMoved,
                   estimatedTotalEmails, caught, exitCode, fails, reqs>>

NextMail == Run \/ Arrive

\* a run within one calendar day, with mail arriving meanwhile
SpecMail == Init /\ [][NextMail]_vars

\* ------------------------------------------------------------------------
\* The earlier script src/unnamed/part_000: it first collects the pages of
\* all windows (fetchAllOldEmails) and then hands the whole list to
\* moveEmailsToArchive once.  Its positions are connect0 .. logout0; emails
\* holds allEmails.

InitV0 ==
    /\ pc = "connect0"
    /\ now = NowInit
    /\ ticks = 0
    /\ \E n \in 0..MaxMsgs : \E ts \in InitBoxes(n) :
          inbox = [i \in 1..n |-> [id |-> i, t |-> ts[i], late |-> FALSE]]
    /\ archive = <<>>
    /\ mailboxes \in {{"INBOX"} \cup S : S \in SUBSET (Names \ {"INBOX"})}
    /\ BATCH_SIZE \in 1..MaxBatch
    /\ oneWeekAgo = 0
    /\ startSeq = 0
    /\ emails = <<>>
    /\ index = 0
    /\ totalEmailsMoved = 0
    /\ estimatedTotalEmails = 0
    /\ caught = FALSE
    /\ exitCode = -1
    /\ fails = 0
    /\ reqs = <<>>

\* a rejected call inside the try block of part_000:163-175
ThrowV0 == /\ caught' = TRUE
           /\ pc' = "logout0"

\* part_000:164-165
ConnectV0 ==
    /\ pc = "connect0"
    /\ \E ok \in BOOLEAN :
        /\ ok \/ CanFail
        /\ Outcome(ok)
        /\ Log([Blank EXCEPT !.op = "connect", !.ok = ok])
        /\ IF ok THEN pc' = "open0" /\ UNCHANGED caught ELSE ThrowV0
    /\ UNCHANGED <<now, ticks, inbox, archive, mailboxes, BATCH_SIZE, oneWeekAgo,
                   startSeq, emails, index, totalEmailsMoved,
                   estimatedTotalEmails, exitCode>>

\* part_000:166-168 and the start of fetchAllOldEmails, part_000:111-112
MailboxOpenV0 ==
    /\ pc = "open0"
    /\ \E ok \in BOOLEAN :
        /\ ok \/ CanFail
        /\ Outcome(ok)
        /\ Log([Blank EXCEPT !.op = "open", !.dest = "INBOX", !.ok = ok])
        /\ IF ok
           THEN /\ startSeq' = 1
                /\ emails' = <<>>
                /\ pc' = "search0"
                /\ UNCHANGED caught
           ELSE /\ ThrowV0
                /\ UNCHANGED <<startSeq, emails>>
    /\ UNCHANGED <<now, ticks, inbox, archive, mailboxes, BATCH_SIZE, oneWeekAgo,
                   index, totalEmailsMoved, estimatedTotalEmails, exitCode>>

\* the test that leaves the loop of fetchAllOldEmails, part_000:117
ShortPage(page, b) == Len(page) < b

\* one pass of the loop of fetchAllOldEmails, part_000:114-121, with
\* fetchEmails, part_000:96-103; when the loop ends, part_000:168-174
SearchV0 ==
    /\ pc = "search0"
    /\ LET before == Cutoff(now)
           lo     == startSeq
           hi     == WindowEnd(startSeq, BATCH_SIZE)
           res    == StoreSearch(inbox, before, lo, hi)
       IN \E ok \in BOOLEAN :
            /\ ok \/ CanFail
            /\ Outcome(ok)
            /\ Log([Blank EXCEPT !.op = "search", !.lo = lo, !.hi = hi,
                                 !.before = before, !.ok = ok,
                                 !.res = IF ok THEN res ELSE <<>>,
                                 !.msgs = IF ok THEN Denote(inbox, res) ELSE <<>>])
            /\ IF ok
               THEN /\ emails' = emails \o res
                    /\ IF ShortPage(res, BATCH_SIZE)
                       THEN /\ pc' = IF Len(emails') # 0 THEN "list0" ELSE "logout0"
                            /\ UNCHANGED startSeq
                       ELSE /\ startSeq' = startSeq + BATCH_SIZE
                            /\ pc' = "search0"
                    /\ UNCHANGED caught
               ELSE /\ ThrowV0
                    /\ UNCHANGED <<emails, startSeq>>
    /\ UNCHANGED <<now, ticks, inbox, archive, mailboxes, BATCH_SIZE, oneWeekAgo,
                   index, totalEmailsMoved, estimatedTotalEmails, exitCode>>

\* moveEmailsToArchive up to its loop, part_000:132-141
ListV0 ==
    /\ pc = "list0"
    /\ \E ok \in BOOLEAN :
        /\ ok \/ CanFail
        /\ Outcome(ok)
        /\ Log([Blank EXCEPT !.op = "list", !.ok = ok])
        /\ IF ok
           THEN /\ index' = 0
                /\ pc' = IF ArchiveExists(mailboxes) /\ 0 < Len(emails)
                         THEN "move0" ELSE "logout0"
                /\ UNCHANGED caught
           ELSE /\ ThrowV0
                /\ UNCHANGED index
    /\ UNCHANGED <<now, ticks, inbox, archive, mailboxes, BATCH_SIZE, oneWeekAgo,
                   startSeq, emails, totalEmailsMoved, estimatedTotalEmails,
                   exitCode>>

\* one pass of the loop of part_000:141-151; the store moves the messages
\* that are at the named sequence numbers when the request arrives
MoveV0 ==
    /\ pc = "move0"
    /\ LET batch == Slice(emails, index, index + BATCH_SIZE)
       IN \E ok \in BOOLEAN :
            /\ ok => StoreHas(mailboxes, "Archive")
            /\ ok \/ CanFail
            /\ Outcome(ok)
            /\ Log([Blank EXCEPT !.op = "move", !.ids = batch,
                                 !.dest = "Archive", !.ok = ok,
                                 !.msgs = Denote(inbox, batch)])
            /\ IF ok
               THEN /\ inbox' = StoreMoveKeep(inbox, batch)
                    /\ archive' = archive \o StoreMoveTake(inbox, batch)
               ELSE UNCHANGED <<inbox, archive>>
            /\ index' = NextIndex(index, BATCH_SIZE, ok)
            /\ pc' = IF index' < Len(emails) THEN "move0" ELSE "logout0"
    /\ UNCHANGED <<now, ticks, mailboxes, BATCH_SIZE, oneWeekAgo, startSeq, emails,
                   totalEmailsMoved, estimatedTotalEmails, caught, exitCode>>

\* the finally block, part_000:177-180, and the handler of part_000:183-186
LogoutV0 ==
    /\ pc = "logout0"
    /\ \E ok \in BOOLEAN :
        /\ ok \/ CanFail
        /\ Outcome(ok)
        /\ Log([Blank EXCEPT !.op = "logout", !.ok = ok])
        /\ exitCode' = IF ok THEN 0 ELSE 1
    /\ pc' = "done"
    /\ UNCHANGED <<now, ticks, inbox, archive, mailboxes, BATCH_SIZE, oneWeekAgo,
                   startSeq, emails, index, totalEmailsMoved,
                   estimatedTotalEmails, caught>>

NextV0 ==
    \/ ConnectV0
    \/ MailboxOpenV0
    \/ SearchV0
    \/ ListV0
    \/ MoveV0
    \/ LogoutV0
    \/ Tick

SpecV0 == InitV0 /\ [][NextV0]_vars

\* either script
InitAll == Init \/ InitV0

NextAll == Next \/ NextV0

SpecAll == InitAll /\ [][NextAll]_vars

\* the program is started a second time on the same store with the same
\* environment, main.ts:124-134 and 172; the log goes on after a start mark
Restart ==
    /\ pc = "done"
    /\ \A i \in 1..Len(reqs) : reqs[i].op # "start"
    /\ pc' = "connect"
    /\ oneWeekAgo' = 0
    /\ startSeq' = 0
    /\ emails' = <<>>
    /\ index' = 0
    /\ totalEmailsMoved' = 0
    /\ estimatedTotalEmails' = 0
    /\ caught' = FALSE
    /\ exitCode' = -1
    /\ Log([Blank EXCEPT !.op = "start"])
    /\ UNCHANGED <<now, ticks, inbox, archive, mailboxes, BATCH_SIZE, fails>>

NextRerun == Next \/ Restart

\* a run followed by a second run
SpecRerun == Init /\ [][NextRerun]_vars

\* ------------------------------------------------- the batch size setting
\* characters of the setting: a sign, digits, a character that is neither
EnvChars == {"-", "0", "1", "2", "a"}
Digits == {"0", "1", "2"}

RECURSIVE StringsUpTo(_)
StringsUpTo(n) ==
    IF n = 0 THEN {<<>>}
    ELSE LET shorter == StringsUpTo(n - 1)
         IN shorter \cup {Append(t, c) : t \in shorter, c \in EnvChars}

\* process.env.IMAP_BATCH_SIZE: unset, or a string
EnvValues ==
    {[set |-> FALSE, text |-> <<>>]}
        \cup {[set |-> TRUE, text |-> t] : t \in StringsUpTo(MaxEnvLen)}

DigitVal(c) == CASE c = "0" -> 0 [] c = "1" -> 1 [] c = "2" -> 2

AllDigits(t) == \A k \in 1..Len(t) : t[k] \in Digits

RECURSIVE DigitsValue(_)
DigitsValue(t) ==
    IF t = <<>> THEN 0
    ELSE DigitsValue(SubSeq(t, 1, Len(t) - 1)) * 10 + DigitVal(t[Len(t)])

NaN == [nan |-> TRUE, val |-> 0]
Num(v) == [nan |-> FALSE, val |-> v]

\* Number(value) of JavaScript on undefined and on strings over EnvChars:
\* undefined is NaN, the empty string is 0, decimal digits with an optional
\* leading minus are that integer, anything else is NaN
Number(e) ==
    IF ~e.set THEN NaN
    ELSE IF e.text = <<>> THEN Num(0)
    ELSE IF AllDigits(e.text) THEN Num(DigitsValue(e.text))
    ELSE IF e.text[1] = "-" /\ Len(e.text) > 1 /\ AllDigits(Tail(e.text))
         THEN Num(0 - DigitsValue(Tail(e.text)))
    ELSE NaN

\* x || d of JavaScript on numbers: NaN and 0 are falsy
OrElse(x, d) == IF x.nan \/ x.val = 0 THEN d ELSE x.val

\* the module constant of main.ts:24, evaluated when the script is loaded
Configure ==
    /\ pc = "env"
    /\ \E e \in EnvValues :
          /\ BATCH_SIZE' = OrElse(Number(e), DefaultBatch)
          /\ Log([Blank EXCEPT !.op = "env", !.dest = "IMAP_BATCH_SIZE",
                               !.ok = e.set, !.ids = e.text])
    /\ pc' = "connect"
    /\ UNCHANGED <<now, ticks, inbox, archive, mailboxes, oneWeekAgo, startSeq,
                   emails, index, totalEmailsMoved, estimatedTotalEmails, caught,
                   exitCode, fails>>

\* the process before the script is loaded
InitEnv ==
    /\ pc = "env"
    /\ now = NowInit
    /\ ticks = 0
    /\ \E n \in 0..MaxMsgs : \E ts \in InitBoxes(n) :
          inbox = [i \in 1..n |-> [id |-> i, t |-> ts[i], late |-> FALSE]]
    /\ archive = <<>>
    /\ mailboxes \in {{"INBOX"} \cup S : S \in SUBSET (Names \ {"INBOX"})}
    /\ BATCH_SIZE = 0
    /\ oneWeekAgo = 0
    /\ startSeq = 0
    /\ emails = <<>>
    /\ index = 0
    /\ totalEmailsMoved = 0
    /\ estimatedTotalEmails = 0
    /\ caught = FALSE
    /\ exitCode = -1
    /\ fails = 0
    /\ reqs = <<>>

NextEnv == Configure \/ Next

SpecEnv == InitEnv /\ [][NextEnv]_vars

\* ------------------------------------------------------- reading the log
ReqIdx == 1..Len(reqs)
OpIdx(op) == {i \in ReqIdx : reqs[i].op = op}
PageIdx == {i \in OpIdx("search") : reqs[i].ok}
MovedIdx == {i \in OpIdx("move") : reqs[i].ok}

RECURSIVE SumLen(_, _)
SumLen(f, S) ==
    IF S = {} THEN 0
    ELSE LET i == CHOOSE x \in S : TRUE IN Len(f[i]) + SumLen(f, S \ {i})

PageLens == SumLen([i \in ReqIdx |-> reqs[i].res], PageIdx)

\* every store call of the finished run was answered and the store has the
\* container the moves name
CleanRun == pc = "done" /\ fails = 0 /\ "Archive" \in mailboxes

\* the messages the run started with
AllMsgs == SeqRange(inbox) \cup SeqRange(archive)

\* the listing has no container named archive in any spelling
ArchiveAbsent == mailboxes \cap {"Archive", "ARCHIVE", "archive"} = {}

CeilDiv(m, w) == (m + w - 1) \div w

\* ------------------------------------------------------------------ claims

\* C1: after a run in which the Archive container exists and every store
\* call succeeded, INBOX holds no message received before the cutoff of the
\* run (each of them is in Archive).
C1_Completeness ==
    CleanRun => \A i \in 1..Len(inbox) : ~(inbox[i].t < oneWeekAgo)

\* C2: when all m >= 1 messages match and every store call succeeds, the
\* run issues exactly ceil(m/w) searches, every page but the last is full,
\* the last page has m mod w identifiers (w when that is 0), and the moves
\* have the sizes of the pages.
C2_PageCount ==
    LET m == Cardinality(AllMsgs)
        w == BATCH_SIZE
        last == IF m % w = 0 THEN w ELSE m % w
    IN (CleanRun /\ m >= 1 /\ \A x \in AllMsgs : x.t < oneWeekAgo)
       => /\ Cardinality(PageIdx) = CeilDiv(m, w)
          /\ \A i \in PageIdx :
               Len(reqs[i].res) = IF \E j \in PageIdx : j > i THEN w ELSE last
          /\ Cardinality(MovedIdx) = CeilDiv(m, w)
          /\ \A i \in PageIdx : i + 2 \in MovedIdx /\ reqs[i + 2].ids = reqs[i].res

C4_MovedCount ==
    CleanRun => /\ totalEmailsMoved = PageLens
                /\ totalEmailsMoved = Len(archive)

\* a fully successful run with two pages that were moved
C4_Witness ==
    /\ CleanRun
    /\ Cardinality({i \in PageIdx : reqs[i].res # <<>>}) >= 2
    /\ totalEmailsMoved >= 2

\* C5: while the listing has no archive container, no move request is issued.
C5_NoMoveWithoutArchive ==
    ArchiveAbsent => OpIdx("move") = {}

\* a finished run without archive container whose searches matched messages
\* on two pages
C5_Witness ==
    /\ ArchiveAbsent
    /\ pc = "done"
    /\ Cardinality({i \in PageIdx : reqs[i].res # <<>>}) >= 2
    /\ Cardinality(OpIdx("list")) >= 2

\* C6: when the archive container is absent, no search request is issued and
\* the movedCount reported at the end of the run is 0.
C6_EarlyStop ==
    ArchiveAbsent
        => /\ OpIdx("search") = {}
           /\ pc = "done" => totalEmailsMoved = 0

\* C7: a rejected move leaves movedCount, the cursor and the page unchanged,
\* and the next store request is a move of the same identifiers to the same
\* destination.
C7_RetrySameChunk ==
    /\ [](\A i \in OpIdx("move") : (~reqs[i].ok /\ i < Len(reqs))
            => /\ reqs[i + 1].op = "move"
               /\ reqs[i + 1].ids = reqs[i].ids
               /\ reqs[i + 1].dest = reqs[i].dest)
    /\ [][(pc = "move" /\ fails' # fails)
            => /\ totalEmailsMoved' = totalEmailsMoved
               /\ index' = index
               /\ emails' = emails
               /\ startSeq' = startSeq
               /\ pc' = "move"]_vars

\* a chunk rejected twice and then moved
C7_Witness ==
    \E i \in OpIdx("move") :
        /\ ~reqs[i].ok
        /\ i + 2 \in MovedIdx
        /\ ~reqs[i + 1].ok
        /\ reqs[i + 2].ids = reqs[i].ids

\* C8: a run that ends has issued logout exactly once, as its last store
\* request, however it ended.
C8_LogoutOnce ==
    /\ \A i \in OpIdx("logout") : i = Len(reqs)
    /\ pc = "done" => Len(reqs) \in OpIdx("logout")

\* a run ended by a rejected search, after a page was moved
C8_Witness ==
    /\ pc = "done" /\ caught
    /\ \E i \in OpIdx("search") : ~reqs[i].ok
    /\ MovedIdx # {}
    /\ Cardinality(OpIdx("logout")) = 1

\* a connect, mailbox-open or search request of the run was rejected
FatalInRun ==
    \E i \in OpIdx("connect") \cup OpIdx("open") \cup OpIdx("search") : ~reqs[i].ok

\* C9: the process exits non-zero when a fatal error occurred during the run
\* and zero after a run without any rejected call.
C9_ExitStatus ==
    pc = "done" => /\ FatalInRun => exitCode # 0
                   /\ fails = 0 => exitCode = 0

\* C10: a rejected logout does not change the outcome: the exit status stays
\* zero after a run that was clean and non-zero after a fatal one.
C10_LogoutFailure ==
    (pc = "done" /\ ~reqs[Len(reqs)].ok)
        => IF caught THEN exitCode # 0 ELSE exitCode = 0

\* the identifiers of the confirmed moves logged strictly between i and j,
\* in the order of the requests
RECURSIVE MovedBetween(_, _)
MovedBetween(i, j) ==
    IF i + 1 >= j THEN <<>>
    ELSE (IF reqs[i + 1].op = "move" /\ reqs[i + 1].ok THEN reqs[i + 1].ids ELSE <<>>)
         \o MovedBetween(i + 1, j)

MovedLens == SumLen([i \in ReqIdx |-> reqs[i].ids], MovedIdx)

\* C11: after a rejected connect, mailbox-open or search request the run
\* issues no further search and no move: the only store request that follows
\* is logout.
C11_FatalStops ==
    \A i \in OpIdx("connect") \cup OpIdx("open") \cup OpIdx("search") :
        ~reqs[i].ok => \A j \in ReqIdx : j > i => reqs[j].op = "logout"

\* a finished run whose second search was rejected
C11_Witness ==
    /\ pc = "done"
    /\ \E i \in PageIdx : \E j \in OpIdx("search") :
         i < j /\ ~reqs[j].ok /\ j < Len(reqs)

\* C12: all search requests of a run carry the same cutoff, whatever the
\* clock does between them.
C12_FixedCutoff ==
    \A i, j \in OpIdx("search") : reqs[i].before = reqs[j].before

C14_CountBound ==
    /\ [](totalEmailsMoved <= MovedLens)
    /\ [][totalEmailsMoved' >= totalEmailsMoved]_vars

\* C16: a search for a further window is issued only after the whole page
\* of every earlier search was confirmed moved, chunk by chunk in page order.
C16_DrainBeforeNext ==
    \A i \in PageIdx : \A j \in OpIdx("search") :
        (i < j /\ \A k \in OpIdx("search") : ~(i < k /\ k < j))
            => MovedBetween(i, j) = reqs[i].res

\* C20: the k-th search of a run covers the sequence numbers 1 + (k-1)*w to
\* k*w, w the batch size.
C20_Windows ==
    \A i \in OpIdx("search") :
        LET k == Cardinality({j \in OpIdx("search") : j <= i})
        IN /\ reqs[i].lo = 1 + (k - 1) * BATCH_SIZE
           /\ reqs[i].hi = k * BATCH_SIZE

\* a run with three searches, or two of a window wider than one
C20_Witness ==
    \/ Cardinality(OpIdx("search")) >= 3
    \/ Cardinality(OpIdx("search")) >= 2 /\ BATCH_SIZE >= 2

LateCount == Cardinality({x \in Stored : x.late})

\* C19: the status count is requested at most once in a run, before the
\* first search, and the estimate is never changed afterwards; movedCount
\* never exceeds the estimate plus the messages delivered after the snapshot.
C19_Estimate ==
    /\ [](/\ Cardinality(OpIdx("status")) <= 1
          /\ \A j \in OpIdx("search") : \E i \in OpIdx("status") : i < j /\ reqs[i].ok
          /\ totalEmailsMoved <= estimatedTotalEmails + LateCount)
    /\ [][pc # "status" => estimatedTotalEmails' = estimatedTotalEmails]_vars

\* a finished run that moved a message delivered after the snapshot, so that
\* movedCount is above the estimate
C19_Witness ==
    /\ pc = "done"
    /\ \E x \in SeqRange(archive) : x.late
    /\ estimatedTotalEmails >= 1
    /\ totalEmailsMoved > estimatedTotalEmails

\* C17: a second run started after a fully successful first run, with the
\* same cutoff and an unchanged mailbox, finds no matching message and issues
\* no move request.
C17_RerunIdle ==
    \A k \in OpIdx("start") :
        (/\ \A i \in 1..(k - 1) : reqs[i].ok
         /\ "Archive" \in mailboxes
         /\ \A i, j \in OpIdx("search") : reqs[i].before = reqs[j].before)
        => /\ \A j \in OpIdx("move") : j < k
           /\ \A j \in PageIdx : j > k => reqs[j].res = <<>>

\* C18: when no chunk is rejected forever (the store has the container the
\* moves name, or no move is attempted, and rejections are finitely many) the
\* run reaches the end of logout; while the store cannot take the moves, no
\* step leaves the retry loop of the mover.
C18_Termination ==
    /\ ("Archive" \in mailboxes \/ ArchiveAbsent) => <>(pc = "done")
    /\ [][(pc = "move" /\ "Archive" \notin mailboxes)
            => (pc' = "move" /\ OpIdx("search")' = OpIdx("search")
                              /\ OpIdx("logout")' = OpIdx("logout"))]_vars

\* a run that finished although a chunk was rejected before it was moved
C18_Witness ==
    /\ pc = "done" /\ ~caught
    /\ \E i \in OpIdx("move") : ~reqs[i].ok
    /\ Cardinality(PageIdx) >= 2

\* C15: every move request carries at least one and at most batch-size
\* identifiers, also when the mover is handed more than batch-size
\* identifiers in one call.
C15_ChunkSize ==
    \A j \in OpIdx("move") :
        Len(reqs[j].ids) >= 1 /\ Len(reqs[j].ids) <= BATCH_SIZE

\* the mover was handed more than batch-size identifiers and two of its
\* chunks were moved
C15_Witness ==
    /\ Len(emails) > BATCH_SIZE
    /\ Cardinality(MovedIdx) >= 2

\* C21: every message that leaves INBOX on a successful move was received
\* before the cutoff of a search of the run, and each identifier of a
\* successful move request denotes, when the move is executed, the message
\* that the search which returned this identifier had matched.
C21_OnlyMatchedMoved ==
    /\ \A x \in SeqRange(archive) : \E i \in PageIdx : x.t < reqs[i].before
    /\ \A j \in MovedIdx : \A p \in 1..Len(reqs[j].ids) :
          \E i \in PageIdx : \E q \in 1..Len(reqs[i].res) :
             /\ i < j
             /\ reqs[i].res[q] = reqs[j].ids[p]
             /\ reqs[i].msgs[q] = reqs[j].msgs[p]

\* C22: the destination named in every move request is a container present
\* in the listing that the existence check read.
C22_DestinationListed ==
    \A j \in OpIdx("move") :
        /\ \E i \in OpIdx("list") : i < j /\ reqs[i].ok
        /\ reqs[j].dest \in mailboxes

\* the setting is written as a positive integer in decimal digits
IsPositiveInteger(e) ==
    e.ok /\ e.ids # <<>> /\ AllDigits(e.ids) /\ DigitsValue(e.ids) > 0

\* C23: whatever the IMAP_BATCH_SIZE setting, the effective batch size is a
\* positive integer, the configured value when that is a positive integer and
\* 500 otherwise; the mover's cursor grows on every moved chunk and the mover
\* runs only while the cursor is inside the page.
C23_BatchSize ==
    /\ [](\A i \in OpIdx("env") :
            /\ BATCH_SIZE >= 1
            /\ BATCH_SIZE = IF IsPositiveInteger(reqs[i])
                            THEN DigitsValue(reqs[i].ids) ELSE DefaultBatch)
    /\ [](pc = "move" => index >= 0 /\ index < Len(emails))
    /\ [][MovedIdx' # MovedIdx => index' > index]_vars

====
